---- MODULE Spec2Model ----
(***************************************************************************)
(* Model of the resource cache of src/src/resource.rs:                     *)
(*   ResourceStorage (acquire, update), StreamMethod, AsyncMethod and the  *)
(*   ResourceProvider trait they are generic over.                         *)
(*                                                                         *)
(* Threads of the model:                                                   *)
(*   - the owner thread, which calls ResourceStorage::acquire and          *)
(*     ResourceStorage::update (both take &mut self, so they never         *)
(*     overlap each other);                                                *)
(*   - the worker threads of AsyncMethod's pool, which run the closures    *)
(*     spawned by AsyncMethod::acquire;                                    *)
(*   - external consumers, which hold clones of the returned               *)
(*     Arc<Mutex<Resource>>, lock them to read, and drop them.             *)
(*                                                                         *)
(* A handle is an allocation made by Arc::new; its identity is the number  *)
(* of the allocation.  Mutex poisoning (a consumer or provider that        *)
(* panics while holding a slot lock) is not modelled.                      *)
(***************************************************************************)
EXTENDS Integers, FiniteSets, Sequences, TLC

\* ------------------------------------------------------------------ bounds
\* Number of Arc::new allocations a behaviour may make.
MaxHandles == 2
\* Number of clones of one handle that external consumers may hold at once.
MaxExt == 1

\* ------------------------------------------------------------ value domains
Locations == {"a", "b"}
Handles   == 1..MaxHandles
NoHandle  == 0

\* enum Resource<T> { Ready(T), Load, Fail(&'static str) }
Load      == [tag |-> "Load",  val |-> 0]
Ready(v)  == [tag |-> "Ready", val |-> v]
Fail(r)   == [tag |-> "Fail",  val |-> r]
\* Placeholder for "no Resource value" (a handle that was never allocated).
NoSlot    == [tag |-> "None",  val |-> 0]
Resource  == {Load} \cup {Ready(v) : v \in {42}} \cup {Fail(r) : r \in {1}}

Terminal(s) == s.tag \in {"Ready", "Fail"}

Methods   == {"Stream", "Async"}
PoolSizes == {1, 2}

VARIABLES
  \* construction parameters, fixed afterwards
  method,      \* which ResourceMethod the store was built with
  threads,     \* AsyncMethod::new(threads); 0 when there is no pool
  \* ResourceStorage and the heap
  resources,   \* the HashMap: location -> handle, NoHandle when absent
  nextId,      \* next allocation number of Arc::new
  hloc,        \* handle -> the location it was created for
  slot,        \* handle -> the Resource inside the Mutex
  lock,        \* handle -> who holds the Mutex: "free", "owner", "job", "ext"
  ext,         \* handle -> number of clones held by external consumers
  job,         \* handle -> state of the spawned closure: "none", "queued",
               \* "running", "blocked", "locked", "written", "done"
  \* owner thread
  pc,          \* "idle", "stream_acquire", "update_iter", "update_lock",
               \* "update_provider"
  acqLoc,      \* the location of the StreamMethod::acquire in progress
  todo,        \* entries the loop of update() has not visited yet
  cur,         \* the entry the loop of update() is at
  \* history
  ev,          \* the operation that completed in the last step
  lastAcq,     \* location -> handle returned by the latest acquire since the
               \* entry was last removed
  swept,       \* location -> the handle most recently removed by a sweep
  startInfo,   \* location -> what held the entry when update() started
  updCount,    \* location -> provider.update invocations on its entry in
               \* this update()
  writes,      \* handle -> number of writes by its load job
  methodCalls, \* number of ResourceMethod::acquire calls that returned
  provCalls    \* number of ResourceProvider::acquire invocations so far

cfgVars   == <<method, threads>>
heapVars  == <<resources, nextId, hloc, slot, lock, ext, job>>
ownerVars == <<pc, acqLoc, todo, cur>>
histVars  == <<ev, lastAcq, swept, startInfo, updCount, writes, methodCalls,
               provCalls>>
vars      == <<cfgVars, heapVars, ownerVars, histVars>>

\* ---------------------------------------------------------------- helpers
NoEv == [op |-> "none", loc |-> "", h |-> NoHandle, hit |-> FALSE, res |-> NoSlot]
Event(op, l, h, hit, res) ==
  [op |-> op, loc |-> l, h |-> h, hit |-> hit, res |-> res]

\* Mutant: the closure's reference does not count (a Weak, say).
JobHoldsNever(h) == FALSE

\* The closure of AsyncMethod::acquire owns a clone of the Arc from the
\* spawn until it returns.
JobHolds(h) == job[h] \in {"queued", "running", "blocked", "locked", "written"}

\* The table's own reference.
TableHolds(h) == hloc[h] \in Locations /\ resources[hloc[h]] = h

\* Arc::strong_count
StrongCount(h) ==
  (IF TableHolds(h) THEN 1 ELSE 0) + ext[h] + (IF JobHolds(h) THEN 1 ELSE 0)

Alive(h) == StrongCount(h) > 0

\* Mutant: the pool starts a thread per closure.
BusyNone == {}

\* Workers of the pool that are executing a closure.
Busy == {h \in Handles : job[h] \in {"running", "blocked", "locked", "written"}}

Cached == {l \in Locations : resources[l] # NoHandle}

\* History kept by a step that completes no store operation: the last
\* event is forgotten, and so is the record of the last update() once the
\* owner thread has left it.
NoInfo == [l \in Locations |-> "absent"]
NoCount == [l \in Locations |-> 0]
Quiet ==
  /\ ev' = NoEv
  /\ startInfo' = IF pc = "idle" THEN NoInfo ELSE startInfo
  /\ updCount' = IF pc = "idle" THEN NoCount ELSE updCount

\* ------------------------------------------------------------------- Init
Init ==
  /\ method \in Methods
  /\ threads \in (IF method = "Async" THEN PoolSizes ELSE {0})
  /\ resources = [l \in Locations |-> NoHandle]
  /\ nextId = 1
  /\ hloc = [h \in Handles |-> ""]
  /\ slot = [h \in Handles |-> NoSlot]
  /\ lock = [h \in Handles |-> "free"]
  /\ ext = [h \in Handles |-> 0]
  /\ job = [h \in Handles |-> "none"]
  /\ pc = "idle"
  /\ acqLoc = ""
  /\ todo = {}
  /\ cur = ""
  /\ ev = NoEv
  /\ lastAcq = [l \in Locations |-> NoHandle]
  /\ swept = [l \in Locations |-> NoHandle]
  /\ startInfo = NoInfo
  /\ updCount = NoCount
  /\ writes = [h \in Handles |-> 0]
  /\ methodCalls = 0
  /\ provCalls = 0


\* ------------------------------------------------ the provider (a trait)
\* ResourceProvider::acquire: any Resource may come back.
ProviderAcquire(l) == Resource

\* ResourceProvider::update: moves a slot towards completion.  A Load slot
\* may stay or become anything; a Ready slot stays, or (a provider that
\* reports a failure in mid-stream) becomes Fail; a Fail slot stays.
ProviderUpdate(s) ==
  IF s.tag = "Load" THEN Resource
  ELSE IF s.tag = "Ready" THEN {s} \cup {Fail(1)}
  ELSE {s}

\* -------------------------------------------------- the two methods
\* Mutant: the handle starts as Load whatever the provider returned.
StreamMethodSlotLoad(r) == Load

\* StreamMethod::acquire: Arc::new(Mutex::new(provider.acquire(&location)))
StreamMethodSlot(r) == r

\* AsyncMethod::acquire: Arc::new(Mutex::new(Resource::Load))
AsyncMethodSlot == Load

\* Mutant: acquire waits for the closure before it returns.
AsyncMethodJobJoined == "done"

\* AsyncMethod::acquire: the closure handed to thread_pool.spawn owns a clone
\* of the new Arc.
AsyncMethodJob == "queued"

\* ------------------------------------------------ ResourceStorage::acquire
\* Mutant: the lookup never finds the entry, so every acquire inserts.
LookupNever(l) == NoHandle

\* entry(location): the handle the table holds for the location, if any.
Lookup(l) == resources[l]

\* Mutant: the allocation hands the previous handle out again.
Recycled == IF nextId > 1 THEN nextId - 1 ELSE nextId

\* Arc::new: a new allocation, distinct from every earlier one.
Fresh == nextId

\* or_insert_with(..).clone(): the caller receives one more clone.
Hand(h) == [ext EXCEPT ![h] = @ + 1]

\* Mutant: a hit on a Fail entry resets the slot to Load to retry the load.
AcquireHitRetry(l) ==
  /\ pc = "idle"
  /\ Lookup(l) # NoHandle
  /\ ext[Lookup(l)] < MaxExt
  /\ ext' = Hand(Lookup(l))
  /\ slot' = [slot EXCEPT ![Lookup(l)] = IF @.tag = "Fail" THEN Load ELSE @]
  /\ lastAcq' = [lastAcq EXCEPT ![l] = Lookup(l)]
  /\ ev' = Event("acquire", l, Lookup(l), TRUE, NoSlot)
  /\ startInfo' = NoInfo
  /\ updCount' = NoCount
  /\ UNCHANGED <<cfgVars, ownerVars, resources, nextId, hloc, lock, job, swept,
                 writes, methodCalls, provCalls>>

\* acquire on an entry that exists.
AcquireHit(l) ==
  /\ pc = "idle"
  /\ Lookup(l) # NoHandle
  /\ ext[Lookup(l)] < MaxExt
  /\ ext' = Hand(Lookup(l))
  /\ lastAcq' = [lastAcq EXCEPT ![l] = Lookup(l)]
  /\ ev' = Event("acquire", l, Lookup(l), TRUE, NoSlot)
  /\ startInfo' = IF pc = "idle" THEN NoInfo ELSE startInfo
  /\ updCount' = IF pc = "idle" THEN NoCount ELSE updCount
  /\ UNCHANGED <<cfgVars, ownerVars, resources, nextId, hloc, slot, lock,
                 job, swept, writes, methodCalls, provCalls>>

\* acquire on a miss with StreamMethod: the owner thread enters
\* provider.acquire.
StreamAcquireCall(l) ==
  /\ pc = "idle"
  /\ method = "Stream"
  /\ Lookup(l) = NoHandle
  /\ nextId <= MaxHandles
  /\ pc' = "stream_acquire"
  /\ acqLoc' = l
  /\ provCalls' = provCalls + 1
  /\ Quiet
  /\ UNCHANGED <<cfgVars, heapVars, todo, cur, lastAcq, swept, writes,
                 methodCalls>>

\* provider.acquire returns r; the method wraps it, the store inserts the
\* handle and returns a clone.
StreamAcquireReturn(r) ==
  /\ pc = "stream_acquire"
  /\ r \in ProviderAcquire(acqLoc)
  /\ LET h == Fresh
         l == acqLoc
     IN /\ slot' = [slot EXCEPT ![h] = StreamMethodSlot(r)]
        /\ hloc' = [hloc EXCEPT ![h] = l]
        /\ resources' = [resources EXCEPT ![l] = h]
        /\ ext' = Hand(h)
        /\ lastAcq' = [lastAcq EXCEPT ![l] = h]
        /\ ev' = Event("acquire", l, h, FALSE, r)
  /\ nextId' = nextId + 1
  /\ methodCalls' = methodCalls + 1
  /\ pc' = "idle"
  /\ acqLoc' = ""
  /\ startInfo' = IF pc = "idle" THEN NoInfo ELSE startInfo
  /\ updCount' = IF pc = "idle" THEN NoCount ELSE updCount
  /\ UNCHANGED <<cfgVars, lock, job, todo, cur, swept, writes, provCalls>>

\* acquire on a miss with AsyncMethod: allocate a Load slot, spawn the
\* closure, insert, return a clone.  Nothing here waits.
AsyncAcquire(l) ==
  /\ pc = "idle"
  /\ method = "Async"
  /\ Lookup(l) = NoHandle
  /\ nextId <= MaxHandles
  /\ LET h == Fresh
     IN /\ slot' = [slot EXCEPT ![h] = AsyncMethodSlot]
        /\ job' = [job EXCEPT ![h] = AsyncMethodJob]
        /\ hloc' = [hloc EXCEPT ![h] = l]
        /\ resources' = [resources EXCEPT ![l] = h]
        /\ ext' = Hand(h)
        /\ lastAcq' = [lastAcq EXCEPT ![l] = h]
        /\ ev' = Event("acquire", l, h, FALSE, AsyncMethodSlot)
  /\ nextId' = nextId + 1
  /\ methodCalls' = methodCalls + 1
  /\ startInfo' = IF pc = "idle" THEN NoInfo ELSE startInfo
  /\ updCount' = IF pc = "idle" THEN NoCount ELSE updCount
  /\ UNCHANGED <<cfgVars, ownerVars, lock, swept, writes, provCalls>>

\* ------------------------------------------------- ResourceStorage::update
\* What holds an entry besides the table.
HeldBy(h) ==
  IF ext[h] > 0 THEN "held" ELSE IF JobHolds(h) THEN "job" ELSE "free"

\* update() is entered: the loop will visit every entry of the table.
UpdateBegin ==
  /\ pc = "idle"
  /\ pc' = "update_iter"
  /\ todo' = Cached
  /\ startInfo' = [l \in Locations |->
                     IF resources[l] = NoHandle THEN "absent"
                     ELSE HeldBy(resources[l])]
  /\ updCount' = NoCount
  /\ ev' = NoEv
  /\ UNCHANGED <<cfgVars, heapVars, acqLoc, cur, lastAcq, swept, writes,
                 methodCalls, provCalls>>

\* iter_mut() yields the next entry (in no particular order); the owner
\* thread calls resource.lock().
UpdateNext(l) ==
  /\ pc = "update_iter"
  /\ l \in todo
  /\ cur' = l
  /\ pc' = "update_lock"
  /\ Quiet
  /\ UNCHANGED <<cfgVars, heapVars, acqLoc, todo, lastAcq, swept, writes,
                 methodCalls, provCalls>>

\* Mutant: update() gives up with an error when it meets a Fail slot.
UpdateLockOrAbort ==
  /\ pc = "update_lock"
  /\ lock[resources[cur]] = "free"
  /\ IF slot[resources[cur]].tag = "Fail"
     THEN /\ pc' = "idle"
          /\ todo' = {}
          /\ cur' = ""
          /\ lock' = lock
     ELSE /\ pc' = "update_provider"
          /\ lock' = [lock EXCEPT ![resources[cur]] = "owner"]
          /\ UNCHANGED <<todo, cur>>
  /\ Quiet
  /\ UNCHANGED <<cfgVars, resources, nextId, hloc, slot, ext, job,
                 acqLoc, lastAcq, swept, writes, methodCalls, provCalls>>

\* resource.lock() returns once the Mutex is free.
UpdateLock ==
  /\ pc = "update_lock"
  /\ lock[resources[cur]] = "free"
  /\ lock' = [lock EXCEPT ![resources[cur]] = "owner"]
  /\ pc' = "update_provider"
  /\ Quiet
  /\ UNCHANGED <<cfgVars, resources, nextId, hloc, slot, ext, job,
                 acqLoc, todo, cur, lastAcq, swept, writes, methodCalls,
                 provCalls>>

\* Mutant: the loop stops after the first entry.
RestNone == {}

\* The entries the loop still has to visit once the current one is done.
Rest == todo \ {cur}

\* Mutant: the guard outlives the statement (it is kept until update()
\* returns, which the model never releases).
UpdateProviderKeepGuard(s) ==
  /\ pc = "update_provider"
  /\ s \in ProviderUpdate(slot[resources[cur]])
  /\ slot' = [slot EXCEPT ![resources[cur]] = s]
  /\ updCount' = [updCount EXCEPT ![cur] = @ + 1]
  /\ todo' = Rest
  /\ cur' = ""
  /\ pc' = "update_iter"
  /\ ev' = NoEv
  /\ UNCHANGED <<cfgVars, resources, nextId, hloc, lock, ext, job, acqLoc,
                 lastAcq, swept, startInfo, writes, methodCalls, provCalls>>

\* provider.update(&mut guard) runs; the guard is dropped at the end of the
\* statement.
UpdateProvider(s) ==
  /\ pc = "update_provider"
  /\ s \in ProviderUpdate(slot[resources[cur]])
  /\ slot' = [slot EXCEPT ![resources[cur]] = s]
  /\ lock' = [lock EXCEPT ![resources[cur]] = "free"]
  /\ updCount' = [updCount EXCEPT ![cur] = @ + 1]
  /\ todo' = Rest
  /\ cur' = ""
  /\ pc' = "update_iter"
  /\ ev' = NoEv
  /\ UNCHANGED <<cfgVars, resources, nextId, hloc, ext, job, acqLoc,
                 lastAcq, swept, startInfo, writes, methodCalls, provCalls>>

\* Mutant: the test is >= 1, which every entry passes.
RetainAlways(h) == StrongCount(h) >= 1

\* Mutant: the test is > 2, which an entry with one holder fails.
RetainOverTwo(h) == StrongCount(h) > 2

\* retain(|_, resource| Arc::strong_count(&resource) > 1)
Retain(h) == StrongCount(h) > 1

\* The loop is over; the sweep removes the entries retain rejects, and
\* update() returns.  The entries are tested one after the other, but a
\* test depends on its own handle only, and a count of 1 cannot rise (the
\* table's reference is the only one left and it is borrowed by the sweep),
\* so the sweep is one step.  Removing an entry drops the table's Arc; the
\* handle it was the last reference of is freed with its Resource.
UpdateSweep ==
  /\ pc = "update_iter"
  /\ todo = {}
  /\ resources' = [l \in Locations |->
                     IF resources[l] # NoHandle /\ Retain(resources[l])
                     THEN resources[l] ELSE NoHandle]
  /\ swept' = [l \in Locations |->
                 IF resources[l] # NoHandle /\ resources'[l] = NoHandle
                 THEN resources[l] ELSE swept[l]]
  /\ lastAcq' = [l \in Locations |->
                   IF resources'[l] = NoHandle THEN NoHandle ELSE lastAcq[l]]
  /\ pc' = "idle"
  /\ ev' = Event("update", "", NoHandle, FALSE, NoSlot)
  /\ slot' = [h \in Handles |->
                IF TableHolds(h) /\ ~Retain(h) THEN NoSlot ELSE slot[h]]
  /\ UNCHANGED <<cfgVars, nextId, hloc, lock, ext, job, acqLoc,
                 todo, cur, startInfo, updCount, writes, methodCalls,
                 provCalls>>

\* ------------------------------------------- the closure of AsyncMethod
\* Mutant: the closure takes the lock before it calls provider.acquire.
JobStartLocked(h) ==
  /\ job[h] = "queued"
  /\ Cardinality(Busy) < threads
  /\ lock[h] = "free"
  /\ lock' = [lock EXCEPT ![h] = "job"]
  /\ job' = [job EXCEPT ![h] = "running"]
  /\ provCalls' = provCalls + 1
  /\ Quiet
  /\ UNCHANGED <<cfgVars, ownerVars, resources, nextId, hloc, slot, ext,
                 lastAcq, swept, writes, methodCalls>>

\* A worker of the pool picks the closure up and enters provider.acquire.
JobStart(h) ==
  /\ job[h] = "queued"
  /\ Cardinality(Busy) < threads
  /\ job' = [job EXCEPT ![h] = "running"]
  /\ provCalls' = provCalls + 1
  /\ Quiet
  /\ UNCHANGED <<cfgVars, ownerVars, resources, nextId, hloc, slot, lock,
                 ext, lastAcq, swept, writes, methodCalls>>

\* Mutant: the closure calls provider.acquire again after it returned.
JobProviderReturnRetry(h) ==
  /\ job[h] = "running"
  /\ job' = [job EXCEPT ![h] = "blocked"]
  /\ provCalls' = provCalls + 1
  /\ Quiet
  /\ UNCHANGED <<cfgVars, ownerVars, resources, nextId, hloc, slot, lock, ext,
                 lastAcq, swept, writes, methodCalls>>

\* provider.acquire(&location) returns; the closure calls resource.lock().
\* No one reads the returned value before the assignment, so the model
\* draws it from the provider's results at the assignment.
JobProviderReturn(h) ==
  /\ job[h] = "running"
  /\ job' = [job EXCEPT ![h] = "blocked"]
  /\ Quiet
  /\ UNCHANGED <<cfgVars, ownerVars, resources, nextId, hloc, slot, lock, ext,
                 lastAcq, swept, writes, methodCalls, provCalls>>

\* Mutant: the closure gives up when no consumer holds the handle.
JobLockIfHeld(h) ==
  /\ job[h] = "blocked"
  /\ lock[h] = "free"
  /\ ext[h] > 0
  /\ lock' = [lock EXCEPT ![h] = "job"]
  /\ job' = [job EXCEPT ![h] = "locked"]
  /\ Quiet
  /\ UNCHANGED <<cfgVars, ownerVars, resources, nextId, hloc, slot, ext,
                 lastAcq, swept, writes, methodCalls, provCalls>>

\* resource.lock() returns once the Mutex is free.
JobLock(h) ==
  /\ job[h] = "blocked"
  /\ lock[h] = "free"
  /\ lock' = [lock EXCEPT ![h] = "job"]
  /\ job' = [job EXCEPT ![h] = "locked"]
  /\ Quiet
  /\ UNCHANGED <<cfgVars, ownerVars, resources, nextId, hloc, slot, ext,
                 lastAcq, swept, writes, methodCalls, provCalls>>

\* What the closure assigns, given the provider's result r.
JobValue(r) == r

\* *guard = r, where r is what provider.acquire returned; the guard is
\* dropped at the end of the statement.
JobWrite(h, r) ==
  /\ job[h] = "locked"
  /\ r \in ProviderAcquire(hloc[h])
  /\ slot' = [slot EXCEPT ![h] = JobValue(r)]
  /\ lock' = [lock EXCEPT ![h] = "free"]
  /\ job' = [job EXCEPT ![h] = "written"]
  /\ writes' = [writes EXCEPT ![h] = @ + 1]
  /\ ev' = Event("job_write", hloc[h], h, FALSE, r)
  /\ startInfo' = IF pc = "idle" THEN NoInfo ELSE startInfo
  /\ updCount' = IF pc = "idle" THEN NoCount ELSE updCount
  /\ UNCHANGED <<cfgVars, ownerVars, resources, nextId, hloc, ext, lastAcq,
                 swept, methodCalls, provCalls>>

\* The closure returns: its clone of the Arc is dropped and the worker is
\* free again.
JobExit(h) ==
  /\ job[h] = "written"
  /\ job' = [job EXCEPT ![h] = "done"]
  /\ Quiet
  /\ UNCHANGED <<cfgVars, ownerVars, resources, nextId, hloc, slot, lock,
                 ext, lastAcq, swept, writes, methodCalls, provCalls>>

\* ------------------------------------------------- external consumers
\* Mutant: dropping the last consumer's clone evicts the entry at once.
ReleaseAndEvict(h) ==
  /\ ext[h] > 0
  /\ ~(lock[h] = "ext" /\ ext[h] = 1)
  /\ ext' = [ext EXCEPT ![h] = @ - 1]
  /\ resources' = [l \in Locations |->
                     IF resources[l] = h /\ ext[h] = 1 /\ ~JobHolds(h)
                     THEN NoHandle ELSE resources[l]]
  /\ Quiet
  /\ UNCHANGED <<cfgVars, ownerVars, nextId, hloc, slot, lock, job, lastAcq,
                 swept, writes, methodCalls, provCalls>>

\* A consumer drops a clone (a clone whose guard is alive cannot be dropped).
Release(h) ==
  /\ ext[h] > 0
  /\ ~(lock[h] = "ext" /\ ext[h] = 1)
  /\ ext' = [ext EXCEPT ![h] = @ - 1]
  /\ Quiet
  /\ UNCHANGED <<cfgVars, ownerVars, resources, nextId, hloc, slot, lock,
                 job, lastAcq, swept, writes, methodCalls, provCalls>>

\* A consumer locks the handle to read the slot.
ExtLock(h) ==
  /\ ext[h] > 0
  /\ lock[h] = "free"
  /\ lock' = [lock EXCEPT ![h] = "ext"]
  /\ Quiet
  /\ UNCHANGED <<cfgVars, ownerVars, resources, nextId, hloc, slot, ext, job, lastAcq, swept, writes, methodCalls, provCalls>>

\* The consumer's guard goes out of scope.
ExtUnlock(h) ==
  /\ lock[h] = "ext"
  /\ lock' = [lock EXCEPT ![h] = "free"]
  /\ Quiet
  /\ UNCHANGED <<cfgVars, ownerVars, resources, nextId, hloc, slot, ext, job, lastAcq, swept, writes, methodCalls, provCalls>>

\* ------------------------------------------------------------------- Next
Next ==
  \/ \E l \in Locations : AcquireHit(l)
  \/ \E l \in Locations : StreamAcquireCall(l)
  \/ \E r \in Resource : StreamAcquireReturn(r)
  \/ \E l \in Locations : AsyncAcquire(l)
  \/ UpdateBegin
  \/ \E l \in Locations : UpdateNext(l)
  \/ UpdateLock
  \/ \E s \in Resource : UpdateProvider(s)
  \/ UpdateSweep
  \/ \E h \in Handles : JobStart(h)
  \/ \E h \in Handles : JobProviderReturn(h)
  \/ \E h \in Handles : JobLock(h)
  \/ \E h \in Handles, r \in Resource : JobWrite(h, r)
  \/ \E h \in Handles : JobExit(h)
  \/ \E h \in Handles : Release(h)
  \/ \E h \in Handles : ExtLock(h)
  \/ \E h \in Handles : ExtUnlock(h)

Spec == Init /\ [][Next]_vars

\* A step of the closure spawned for handle h.
JobRun(h) ==
  \/ JobStart(h)
  \/ JobProviderReturn(h)
  \/ JobLock(h)
  \/ \E r \in Resource : JobWrite(h, r)
  \/ JobExit(h)

\* Scheduling: a closure that can run again and again does run (a worker
\* becomes free, the Mutex it waits for is released), and a guard is dropped
\* when its scope ends (the owner's after provider.update, a consumer's
\* after its read).
Fairness ==
  /\ \A h \in Handles : SF_vars(JobRun(h)) /\ WF_vars(ExtUnlock(h))
  /\ WF_vars(\E s \in Resource : UpdateProvider(s))

FairSpec == Spec /\ Fairness

\* A step of the thread that called update(), from the first entry of the
\* loop to the sweep.
UpdateRun ==
  \/ \E l \in Locations : UpdateNext(l)
  \/ UpdateLock
  \/ \E s \in Resource : UpdateProvider(s)
  \/ UpdateSweep

\* Scheduling for update(): the calling thread runs whenever it can again
\* and again (the Mutex it waits for is released again and again), and
\* whoever holds a guard drops it: a consumer after its read, a closure
\* after its assignment.
UpdateFairness ==
  /\ SF_vars(UpdateRun)
  /\ \A h \in Handles :
       WF_vars(ExtUnlock(h)) /\ WF_vars(\E r \in Resource : JobWrite(h, r))

UpdateFairSpec == Spec /\ UpdateFairness

TypeOK ==
  /\ resources \in [Locations -> Handles \cup {NoHandle}]
  /\ nextId \in 1..(MaxHandles + 1)
  /\ \A h \in Handles : ext[h] \in 0..MaxExt


\* ------------------------------------------------------------ properties

\* C1: two acquire calls for the same location with no update() in between
\* that removed the location's entry return the same handle, whichever
\* method the store has and whatever the slot holds.
C1_SameHandle ==
  [][\A l \in Locations :
       (ev'.op = "acquire" /\ ev'.loc = l /\ lastAcq[l] # NoHandle)
         => ev'.h = lastAcq[l]]_vars

\* A second acquire of a location returned the handle of the first, with a
\* Fail slot inside.
C1_Witness ==
  /\ ev.op = "acquire"
  /\ ev.hit
  /\ ev.h = lastAcq[ev.loc]
  /\ slot[ev.h].tag = "Fail"

\* C2 (as claimed): an entry whose handle no external consumer holds when
\* update() starts is gone when that update() returns, also when its load
\* job has not finished.
C2_AsClaimed ==
  ev.op = "update" =>
    \A l \in Locations :
      startInfo[l] \in {"free", "job"} => resources[l] = NoHandle

\* C2 (amended): an entry whose handle no external consumer holds when
\* update() starts is removed by the sweep of that update(), provided no
\* load job still owns a clone of the handle when the sweep runs.
C2_SweepReleased ==
  [][\A l \in Locations :
       (ev'.op = "update" /\ startInfo[l] \in {"free", "job"}
          /\ ~JobHolds(resources[l]))
         => resources'[l] = NoHandle]_vars

\* update() removed an entry of the background method whose job was still
\* in flight when update() started and finished before the sweep.
C2_Witness ==
  /\ ev.op = "update"
  /\ \E l \in Locations :
       /\ startInfo[l] = "job"
       /\ resources[l] = NoHandle
       /\ swept[l] # NoHandle

\* C3: an entry whose handle an external consumer holds is not removed and
\* stays mapped to the same handle, in every step (the sweep of update(),
\* job completions and all others).
C3_HeldSurvives ==
  [][\A l \in Locations :
       (resources[l] # NoHandle /\ ext[resources[l]] > 0)
         => resources'[l] = resources[l]]_vars

\* update() returned and an entry that was held when it started is still
\* there, still held.
C3_Witness ==
  /\ ev.op = "update"
  /\ \E l \in Locations :
       /\ startInfo[l] = "held"
       /\ resources[l] # NoHandle
       /\ ext[resources[l]] > 0

\* C4: the acquire that follows the sweep of a location's entry is a miss:
\* the method is invoked once more and the handle returned is a new one,
\* whose slot is what this acquisition produced (Load with AsyncMethod, the
\* provider's new result with StreamMethod).
C4_FreshAfterSweep ==
  [][\A l \in Locations :
       (swept[l] # NoHandle /\ resources[l] = NoHandle
          /\ ev'.op = "acquire" /\ ev'.loc = l)
         => /\ ~ev'.hit
            /\ methodCalls' = methodCalls + 1
            /\ ev'.h # swept[l]
            /\ ~Alive(swept[l])'
            /\ resources'[l] = ev'.h
            /\ slot'[ev'.h] = IF method = "Async" THEN Load ELSE ev'.res
            /\ method = "Async" => job'[ev'.h] = "queued"]_vars

\* A location was acquired again after its entry was swept; the removed
\* handle had been completed by its load job, the new one is Load and its
\* job is in the queue.
C4_Witness ==
  /\ ev.op = "acquire"
  /\ ~ev.hit
  /\ swept[ev.loc] # NoHandle
  /\ writes[swept[ev.loc]] = 1
  /\ ev.h # swept[ev.loc]
  /\ slot[ev.h] = Load
  /\ job[ev.h] = "queued"

\* C5: when update() returns, provider.update has been invoked exactly once
\* on every entry that was in the table when update() started, and on no
\* other.
C5_OneUpdateEach ==
  ev.op = "update" =>
    \A l \in Locations :
      updCount[l] = IF startInfo[l] = "absent" THEN 0 ELSE 1

\* update() returned after visiting two entries, one of them removed by the
\* sweep of this call and the other kept.
C5_Witness ==
  /\ ev.op = "update"
  /\ \A l \in Locations : startInfo[l] # "absent" /\ updCount[l] = 1
  /\ \E l \in Locations : resources[l] = NoHandle
  /\ \E l \in Locations : resources[l] # NoHandle


C7_LoadCompletes ==
  /\ \A h \in Handles : (job[h] = "queued") ~> (job[h] = "done")
  /\ [](\A h \in Handles : writes[h] <= 1)
  /\ [][\A h \in Handles :
          (job[h] = "locked" /\ job'[h] # "locked")
            => /\ ev'.op = "job_write" /\ ev'.h = h
               /\ slot'[h] = ev'.res
               /\ writes'[h] = 1]_vars

\* A closure assigned its result to a handle no consumer holds.
C7_Witness ==
  /\ ev.op = "job_write"
  /\ ext[ev.h] = 0
  /\ slot[ev.h] = ev.res
  /\ ev.res # Load

\* C8: with StreamMethod nothing exists for the location while the provider's
\* acquire runs; when acquire returns the slot is the provider's result;
\* and a slot becomes Load only by being created from a provider result
\* that is Load.
C8_StreamExact ==
  /\ [](pc = "stream_acquire"
          => resources[acqLoc] = NoHandle /\ slot[nextId] = NoSlot)
  /\ [](method = "Stream" /\ ev.op = "acquire" /\ ~ev.hit
          => slot[ev.h] = ev.res)
  /\ [][method = "Stream" =>
          \A h \in Handles :
            (slot'[h] = Load /\ slot[h] # Load)
              => ev'.op = "acquire" /\ ev'.h = h /\ ev'.res = Load]_vars

\* The provider returned Ready(42) and the handle acquire returned holds
\* Ready(42).
C8_Witness ==
  /\ method = "Stream"
  /\ ev.op = "acquire"
  /\ ~ev.hit
  /\ ev.res = Ready(42)
  /\ slot[ev.h] = Ready(42)

\* C9: an acquire that finds an entry calls neither the method nor the
\* provider, spawns nothing, and leaves the table and every slot as they
\* were; it returns the handle of the entry.
C9_HitIsInert ==
  [][(ev'.op = "acquire" /\ ev'.hit)
       => /\ methodCalls' = methodCalls
          /\ provCalls' = provCalls
          /\ resources' = resources
          /\ slot' = slot
          /\ job' = job
          /\ pc' = "idle"
          /\ ev'.h = resources[ev'.loc]]_vars

\* An acquire hit an entry whose slot is Fail, and returned it still Fail.
C9_Witness ==
  /\ ev.op = "acquire"
  /\ ev.hit
  /\ slot[ev.h].tag = "Fail"
  /\ resources[ev.loc] = ev.h

\* C10: at most one handle per location is alive (held by the table, by a
\* consumer or by a closure).
C10_OneLivePerLocation ==
  \A l \in Locations :
    Cardinality({h \in Handles : hloc[h] = l /\ Alive(h)}) <= 1

\* A location has a live handle in the table after an earlier handle of
\* the same location was removed, and the earlier one is dead.
C10_Witness ==
  \E l \in Locations :
    /\ swept[l] # NoHandle
    /\ resources[l] # NoHandle
    /\ resources[l] # swept[l]
    /\ ~Alive(swept[l])
    /\ ext[resources[l]] > 0


\* C11: two locations of the table never map to the same handle, and a
\* closure's assignment or a provider.update changes the slot of its own
\* handle only.
C11_Isolation ==
  /\ [](\A l1, l2 \in Locations :
          (l1 # l2 /\ resources[l1] # NoHandle) => resources[l1] # resources[l2])
  /\ [][\A h \in Handles :
          slot'[h] # slot[h] =>
            \/ ev'.op = "job_write" /\ ev'.h = h
            \/ ev'.op = "acquire" /\ ~ev'.hit /\ ev'.h = h
            \/ ev'.op = "update" /\ TableHolds(h) /\ ~TableHolds(h)'
            \/ pc = "update_provider" /\ resources[cur] = h]_vars

\* A closure assigned its result while the entry of the other location
\* holds a different slot.
C11_Witness ==
  /\ ev.op = "job_write"
  /\ \E l \in Locations :
       /\ l # ev.loc
       /\ resources[l] # NoHandle
       /\ resources[ev.loc] = ev.h
       /\ slot[resources[l]] # slot[ev.h]
       /\ slot[resources[l]].tag = "Fail"

C13_AsClaimed ==
  [][\A h \in Handles :
       (TableHolds(h) /\ TableHolds(h)' /\ Terminal(slot[h])
          /\ ~(pc = "update_provider" /\ resources[cur] = h))
         => slot'[h] = slot[h]]_vars


\* C14: a closure holds the lock of its handle only between the return of
\* provider.acquire and its assignment, which is its next step; while the
\* provider's acquire is queued or executing the lock is free for a
\* consumer or for update().
C14_LockOnlyToAssign ==
  /\ [](\A h \in Handles :
          /\ lock[h] = "job" <=> job[h] = "locked"
          /\ (job[h] \in {"queued", "running"} /\ lock[h] = "free" /\ ext[h] > 0)
               => ENABLED ExtLock(h)
          /\ (job[h] \in {"queued", "running"} /\ lock[h] = "free"
                /\ pc = "update_lock" /\ resources[cur] = h)
               => ENABLED UpdateLock)
  /\ [][\A h \in Handles :
          (lock[h] = "job" /\ job'[h] # job[h])
            => /\ lock'[h] = "free"
               /\ writes'[h] = writes[h] + 1
               /\ ev'.op = "job_write"]_vars

\* update() holds the lock of a Load slot while the provider's acquire for
\* the same handle is executing on a worker.
C14_Witness ==
  \E h \in Handles :
    /\ job[h] = "running"
    /\ lock[h] = "owner"
    /\ slot[h] = Load

\* C15: a handle that has left the table is not touched again: its slot and
\* its lock do not change and no closure assigns to it.
C15_RemovedIsFrozen ==
  [][\A h \in Handles :
       (h < nextId /\ ~TableHolds(h))
         => /\ slot'[h] = slot[h]
            /\ lock'[h] = lock[h]
            /\ writes'[h] = writes[h]
            /\ ~TableHolds(h)'
            /\ ~(pc' = "update_provider" /\ resources'[cur'] = h)]_vars

\* A later update() visited the entry of one location after the entry of
\* the other location had been removed.
C15_Witness ==
  /\ ev.op = "update"
  /\ \E l1, l2 \in Locations :
       /\ swept[l1] # NoHandle
       /\ resources[l1] = NoHandle
       /\ startInfo[l1] = "absent"
       /\ updCount[l2] = 1

\* C16: an entry leaves the table only in the sweep of update(); an entry
\* is replaced by no step; and the table never holds more entries than
\* locations were acquired.
C16_OnlyUpdateRemoves ==
  /\ [][\A l \in Locations :
          (resources[l] # NoHandle /\ resources'[l] # resources[l])
            => /\ resources'[l] = NoHandle
               /\ pc = "update_iter"
               /\ ev'.op = "update"]_vars
  /\ [](Cardinality(Cached)
          <= Cardinality({hloc[h] : h \in {x \in Handles : x < nextId}}))

\* An entry that nothing but the table holds is still in the table after
\* its last consumer released it.
C16_Witness ==
  /\ pc = "idle"
  /\ ev.op = "none"
  /\ \E l \in Locations :
       /\ resources[l] # NoHandle
       /\ StrongCount(resources[l]) = 1
       /\ job[resources[l]] = "done"


\* Closures that have entered provider.acquire.
Started == {h \in Handles : job[h] \in {"running", "blocked", "locked",
                                        "written", "done"}}

\* C17: an acquire that misses runs the method once, inserts one entry that
\* maps the (vacant) location to the handle returned, creates that handle
\* for that location, and leaves the other entries and the other slots
\* alone; the provider's acquire runs once per miss (with AsyncMethod, once
\* the closure has started).
C17_MissAddsOne ==
  /\ [][(ev'.op = "acquire" /\ ~ev'.hit)
          => /\ methodCalls' = methodCalls + 1
             /\ resources[ev'.loc] = NoHandle
             /\ resources' = [resources EXCEPT ![ev'.loc] = ev'.h]
             /\ hloc'[ev'.h] = ev'.loc
             /\ slot[ev'.h] = NoSlot
             /\ \A h \in Handles \ {ev'.h} :
                  slot'[h] = slot[h] /\ job'[h] = job[h] /\ ext'[h] = ext[h]]_vars
  /\ [](methodCalls = nextId - 1)
  /\ [](provCalls = IF method = "Stream"
                    THEN methodCalls + (IF pc = "stream_acquire" THEN 1 ELSE 0)
                    ELSE Cardinality(Started))

\* An acquire missed and inserted a second entry next to one that is Fail.
C17_Witness ==
  /\ ev.op = "acquire"
  /\ ~ev.hit
  /\ methodCalls = 2
  /\ \E l \in Locations :
       /\ l # ev.loc
       /\ resources[l] # NoHandle
       /\ slot[resources[l]].tag = "Fail"

\* C18: a pool is built with at least one thread, and no more closures
\* are executing than the pool has threads; the others wait in the queue
\* while acquire has returned to its caller.
C18_PoolBound ==
  /\ method = "Async" => threads >= 1
  /\ Cardinality(Busy) <= threads
  /\ Cardinality({h \in Handles : job[h] = "running"}) <= threads
  /\ \A h \in Handles :
       (ev.op = "acquire" /\ ~ev.hit /\ ev.h = h /\ method = "Async")
         => job[h] = "queued" /\ pc = "idle"

\* With one thread, acquire returned for a second location while the
\* provider's acquire for the first is executing: the second load waits.
C18_Witness ==
  /\ threads = 1
  /\ ev.op = "acquire"
  /\ pc = "idle"
  /\ job[ev.h] = "queued"
  /\ \E h \in Handles : h # ev.h /\ job[h] = "running"

\* C19: an entry whose closure is still queued, executing or not yet
\* returned is removed by no step; an entry that no consumer holds and
\* whose closure has returned is removed by the next sweep.
C19_JobIsHolder ==
  /\ [][\A l \in Locations :
          (resources[l] # NoHandle
             /\ job[resources[l]] \in {"queued", "running", "blocked",
                                       "locked", "written"})
            => resources'[l] = resources[l]]_vars
  /\ [][\A l \in Locations :
          (ev'.op = "update" /\ resources[l] # NoHandle
             /\ ext[resources[l]] = 0 /\ job[resources[l]] = "done")
            => resources'[l] = NoHandle /\ swept'[l] = resources[l]]_vars

\* update() returned and kept an entry that no consumer held when it
\* started and whose closure is still in flight.
C19_Witness ==
  /\ ev.op = "update"
  /\ \E l \in Locations :
       /\ startInfo[l] = "job"
       /\ resources[l] # NoHandle
       /\ ext[resources[l]] = 0
       /\ job[resources[l]] \in {"queued", "running"}


====
